---- MODULE Spec2Model ----
(***************************************************************************)
(* connect-words: the procedural level generator (LevelGenerator.ts) and   *)
(* the play-time path state machine of Level1Scene.                        *)
(*                                                                         *)
(* The generator is modelled statement by statement: one action per loop   *)
(* iteration of generateLevel / generateHamiltonianPath / generateWalls,   *)
(* with every call to this.rng() drawn either from the seeded recurrence   *)
(* (seededRandom, evaluated with the double arithmetic JavaScript uses) or *)
(* from Math.random, whose value is any number of [0, 1).                  *)
(***************************************************************************)
EXTENDS Integers, Sequences, FiniteSets, TLC

(***************************************************************************)
(* Bounds of the model.                                                    *)
(***************************************************************************)
\* Largest grid area of the small grids on which Math.random is explored
\* exhaustively.
MaxCells == 9
\* Seeds 1..MaxSeed are used for the seeded generator.
MaxSeed == 2
\* Difficulties 1..MaxDifficulty are requested from generateLevel.
MaxDifficulty == 14
\* The difficulty of the Math.random runs that go through all 100 attempts.
LoopDifficulty == 4
\* The difficulty of the levels that are played.
PlayDifficulty == 7
\* The number of rng() calls made directly on one generator.
MaxCalls == 12
\* The number of scene restarts followed.
MaxRestarts == 2

(***************************************************************************)
(* Program constants.                                                      *)
(***************************************************************************)
maxAttempts == 100
\* 0x7fffffff, the mask and the divisor of seededRandom
RngModulus == 2147483647

(***************************************************************************)
(* seededRandom: s = (s * 1103515245 + 12345) & 0x7fffffff in IEEE doubles.*)
(* Numbers are held as little-endian sequences of 11-bit limbs, since the  *)
(* product needs 62 bits.  A double keeps 53 significant bits: the product *)
(* and the sum are each rounded to nearest, ties to even, before the mask. *)
(***************************************************************************)
LimbBase == 2048

Pow2(e) == <<1, 2, 4, 8, 16, 32, 64, 128, 256, 512, 1024, 2048>>[e + 1]

\* 1103515245 = 263 * 2^22 + 201 * 2^11 + 1645
MultiplierLimbs == <<1645, 201, 263>>

ToLimbs(n) == <<n % LimbBase, (n \div LimbBase) % LimbBase, n \div (LimbBase * LimbBase)>>

RECURSIVE CarryFrom(_, _, _)
CarryFrom(limbs, i, carry) ==
  IF i > Len(limbs) THEN <<>>
  ELSE LET v == limbs[i] + carry
       IN <<v % LimbBase>> \o CarryFrom(limbs, i + 1, v \div LimbBase)

Normalize(limbs) == CarryFrom(limbs, 1, 0)

LimbProduct(a, b) ==
  Normalize(<<a[1] * b[1],
              a[1] * b[2] + a[2] * b[1],
              a[1] * b[3] + a[2] * b[2] + a[3] * b[1],
              a[2] * b[3] + a[3] * b[2],
              a[3] * b[3],
              0>>)

RECURSIVE SmallBitLen(_)
SmallBitLen(v) == IF v = 0 THEN 0 ELSE 1 + SmallBitLen(v \div 2)

RECURSIVE BitLenFrom(_, _)
BitLenFrom(limbs, i) ==
  IF i = 0 THEN 0
  ELSE IF limbs[i] # 0 THEN 11 * (i - 1) + SmallBitLen(limbs[i])
  ELSE BitLenFrom(limbs, i - 1)

BitLen(limbs) == BitLenFrom(limbs, Len(limbs))

\* Round to 53 significant bits, nearest, ties to even.
RoundToDouble(limbs) ==
  LET e == BitLen(limbs) - 53
  IN IF e <= 0 THEN limbs
     ELSE LET low == limbs[1] % Pow2(e)
              half == Pow2(e - 1)
              odd == (limbs[1] \div Pow2(e)) % 2 = 1
              up == low > half \/ (low = half /\ odd)
              l0 == limbs[1] - low + (IF up THEN Pow2(e) ELSE 0)
          IN Normalize([limbs EXCEPT ![1] = l0])

AddSmall(limbs, k) == Normalize([limbs EXCEPT ![1] = limbs[1] + k])

\* x & 0x7fffffff: the low 31 bits
Low31(limbs) == limbs[1] + limbs[2] * LimbBase + (limbs[3] % 512) * LimbBase * LimbBase

\* the recurrence in exact integers, as if a double held every product
LcgStepExact(s) ==
  Low31(AddSmall(LimbProduct(ToLimbs(s), MultiplierLimbs), 12345))

LcgStep(s) ==
  Low31(RoundToDouble(AddSmall(RoundToDouble(LimbProduct(ToLimbs(s), MultiplierLimbs)), 12345)))

\* The same step from a negative seed: the product is negative, the sum is
\* -(|s| * 1103515245 - 12345), and & takes the low 31 bits of its two's
\* complement.
LcgStepNegative(s) ==
  LET magnitude == Low31(RoundToDouble(AddSmall(
                     RoundToDouble(LimbProduct(ToLimbs(0 - s), MultiplierLimbs)), 0 - 12345)))
  IN IF magnitude = 0 THEN 0 ELSE RngModulus - magnitude + 1


(***************************************************************************)
(* The value of one this.rng() call is u / 0x7fffffff; the model keeps the *)
(* numerator u.  Math.floor(rng() * k) is the number of j in 1..k with     *)
(* j * 0x7fffffff / k <= u: it is k when u is 0x7fffffff, that is when     *)
(* rng() returns 1.                                                        *)
(***************************************************************************)
\* smallest u with floor(u * k / 0x7fffffff) >= j
IndexThreshold(j, k) ==
  LET q == RngModulus \div k
      r == RngModulus % k
  IN j * q + ((j * r + k - 1) \div k)

FloorMul(u, k) == Cardinality({j \in 1..k : IndexThreshold(j, k) <= u})

\* rng() < 0.15  and  rng() < 0.6, as comparisons of the numerator
SecondBestThreshold == 322122548
ShortWallThreshold == 1288490189

LessThan015(u) == u < SecondBestThreshold
LessThan06(u) == u < ShortWallThreshold

\* Values of Math.random that reach every outcome of a use of rng().
IndexValues(k) == {IndexThreshold(j, k) : j \in 0..(k - 1)}
\* The noise only orders moves of equal count, and only the first two moves
\* of the sorted list are read: three distinct values put any move first and
\* any other move second.
NoiseValues(k) == {0, 1, 2}
SecondBestValues == {0, SecondBestThreshold}
ShortWallValues == {0, ShortWallThreshold}

(***************************************************************************)
(* Tables of LevelGenerator.ts.                                            *)
(***************************************************************************)
LEVEL_WORD_SEQUENCE ==
  << <<"R", "E", "M", "I", "X">>,
     <<"G", "A", "M", "E", "S">>,
     <<"T", "O", "K", "E", "N">>,
     <<"C", "R", "Y", "P", "T", "O">>,
     <<"W", "A", "L", "L", "E", "T">>,
     <<"G", "A", "M", "E", "R">>,
     <<"S", "T", "A", "K", "I", "N", "G">>,
     <<"T", "R", "A", "D", "I", "N", "G">>,
     <<"R", "E", "W", "A", "R", "D", "S">> >>

HARD_WORDS ==
  << <<"E", "T", "H", "E", "R", "E", "U", "M">>,
     <<"F", "A", "R", "C", "A", "S", "T", "E", "R">>,
     <<"M", "E", "T", "A", "V", "E", "R", "S", "E">>,
     <<"B", "L", "O", "C", "K", "C", "H", "A", "I", "N">> >>

GRID_CONFIG_BY_DIFFICULTY ==
  << [cols |-> 5, rows |-> 6],
     [cols |-> 6, rows |-> 7],
     [cols |-> 7, rows |-> 7],
     [cols |-> 7, rows |-> 8] >>

Min(a, b) == IF a < b THEN a ELSE b
Max(a, b) == IF a > b THEN a ELSE b

Pos(r, c) == [row |-> r, col |-> c]

\* a local that holds no position (before its assignment, after the return)
NoPos == Pos(-1, -1)

GridCells(nc, nr) == {Pos(r, c) : r \in 0..(nr - 1), c \in 0..(nc - 1)}

\* generateLevel, lines 105-130: the word and the grid of a difficulty
DifficultyTier(d) == Min((d - 1) \div 3, 3)

LevelWord(d) ==
  IF d <= Len(LEVEL_WORD_SEQUENCE)
  THEN LEVEL_WORD_SEQUENCE[d]
  ELSE HARD_WORDS[((d - 10) % Len(HARD_WORDS)) + 1]

RECURSIVE GrowGrid(_, _, _)
GrowGrid(nc, nr, minCells) ==
  IF nc * nr >= minCells THEN [cols |-> nc, rows |-> nr]
  ELSE IF nc <= nr THEN GrowGrid(nc + 1, nr, minCells)
  ELSE GrowGrid(nc, nr + 1, minCells)

LevelGrid(d) ==
  LET g == GRID_CONFIG_BY_DIFFICULTY[DifficultyTier(d) + 1]
  IN GrowGrid(g.cols, g.rows, Len(LevelWord(d)) * 4)

(***************************************************************************)
(* The small grids and words on which Math.random is explored: inputs of   *)
(* tryGenerateLevel that keep what generateLevel guarantees, a grid of at  *)
(* least 4 cells per letter.                                               *)
(***************************************************************************)
SmallWords == { <<"A", "B">>, <<"A", "B", "A">> }

SmallRequests ==
  {[word |-> w, cols |-> nc, rows |-> nr] :
     w \in SmallWords, nc \in 2..MaxCells, nr \in 2..MaxCells}

\* as in GRID_CONFIG_BY_DIFFICULTY, no grid is wider than it is high
SmallInputs == {q \in SmallRequests : /\ q.cols <= q.rows
                                      /\ q.cols * q.rows <= MaxCells
                                      /\ q.cols * q.rows >= 4 * Len(q.word)}

\* one difficulty of every class that chooseStartPosition and generateWalls
\* tell apart
SmallDifficulties == {d \in 1..MaxDifficulty : d \in {1, 4, 7, 8, 9, 11, 14}}

VARIABLES
  seed,             \* the constructor's argument; 0 when there is none
  s,                \* seededRandom's state
  small,            \* the small word and grid of a Math.random run, or NoSmall
  pc,               \* position in generateLevel
  difficulty, word, cols, rows,
  attempts,
  startPos, path,   \* locals of tryGenerateLevel / generateFallbackLevel
  fallback,         \* TRUE inside generateFallbackLevel
  letterPositions,
  shuffledEdges, scanIdx, walls, usedEdges,   \* locals of generateWalls
  level,            \* the LevelConfig returned, or NoLevel
  firstLevel,       \* the LevelConfig of the first instance of this seed
  scene,            \* the fields of Level1Scene
  rngCalls          \* calls of this.rng() made directly on a new generator

genVars == <<seed, s, small, pc, difficulty, word, cols, rows, attempts, startPos,
             path, fallback, letterPositions, shuffledEdges, scanIdx, walls,
             usedEdges, level, firstLevel, rngCalls>>
vars == <<genVars, scene>>

NoLevel == [word |-> <<>>]
NoSmall == [word |-> <<>>, cols |-> 0, rows |-> 0]
NoScene == [created |-> FALSE, variant |-> "none", path |-> <<>>, isConnected |-> {},
            currentCell |-> [row |-> -1, col |-> -1], nextExpectedLetter |-> 1,
            totalCells |-> 0, gameWon |-> FALSE, isDragging |-> FALSE,
            gamePaused |-> FALSE, usedUndo |-> FALSE, wallBlockedEdges |-> {},
            currentLevel |-> 1, score |-> 0, timeRemaining |-> 0, maxTime |-> 0,
            isGameOver |-> FALSE, gameOverReported |-> FALSE, perfectStreak |-> 0,
            pending |-> {},
            doRestart |-> [nextLevel |-> 0, currentScore |-> 0, transitioned |-> FALSE],
            restartQueue |-> <<>>, restarts |-> 0]

seeded == seed # 0

\* One call of this.rng() from state cur: its value and the state after it.
Draw(cur, values) ==
  IF seeded
  THEN {[u |-> LcgStep(cur), s |-> LcgStep(cur)]}
  ELSE {[u |-> v, s |-> cur] : v \in values}

RECURSIVE DrawSeq(_, _, _)
DrawSeq(cur, k, values) ==
  IF k = 0 THEN {[us |-> <<>>, s |-> cur]}
  ELSE UNION {{[us |-> <<d.u>> \o rest.us, s |-> rest.s] :
                 rest \in DrawSeq(d.s, k - 1, values)} : d \in Draw(cur, values)}


(***************************************************************************)
(* chooseStartPosition                                                     *)
(***************************************************************************)
\* the positions with the edge cells at every difficulty
StartPositionsWithEdges(nc, nr, d) ==
  LET corners == <<Pos(0, 0), Pos(0, nc - 1), Pos(nr - 1, 0), Pos(nr - 1, nc - 1)>>
      topBottom == [i \in 1..(2 * Max(nc - 2, 0)) |->
                      IF i % 2 = 1 THEN Pos(0, (i + 1) \div 2)
                                   ELSE Pos(nr - 1, i \div 2)]
      leftRight == [i \in 1..(2 * Max(nr - 2, 0)) |->
                      IF i % 2 = 1 THEN Pos((i + 1) \div 2, 0)
                                   ELSE Pos(i \div 2, nc - 1)]
  IN corners \o topBottom \o leftRight

StartPositions(nc, nr, d) ==
  LET corners == <<Pos(0, 0), Pos(0, nc - 1), Pos(nr - 1, 0), Pos(nr - 1, nc - 1)>>
      topBottom == [i \in 1..(2 * Max(nc - 2, 0)) |->
                      IF i % 2 = 1 THEN Pos(0, (i + 1) \div 2)
                                   ELSE Pos(nr - 1, i \div 2)]
      leftRight == [i \in 1..(2 * Max(nr - 2, 0)) |->
                      IF i % 2 = 1 THEN Pos((i + 1) \div 2, 0)
                                   ELSE Pos(i \div 2, nc - 1)]
      centerR == nr \div 2
      centerC == nc \div 2
      centre == <<Pos(centerR, centerC), Pos(centerR - 1, centerC),
                  Pos(centerR, centerC - 1)>>
  IN corners \o (IF d > 3 THEN topBottom \o leftRight ELSE <<>>)
             \o (IF d > 7 THEN centre ELSE <<>>)

\* positions[Math.floor(this.rng() * positions.length)]
chooseStartPosition(nc, nr, d, u) ==
  LET positions == StartPositions(nc, nr, d)
  IN positions[FloorMul(u, Len(positions)) + 1]

(***************************************************************************)
(* generateHamiltonianPath                                                 *)
(***************************************************************************)
\* a first direction that is diagonal
directionsDiagonal == <<[dr |-> -1, dc |-> -1], [dr |-> 1, dc |-> 0],
                        [dr |-> 0, dc |-> -1], [dr |-> 0, dc |-> 1]>>

directions == <<[dr |-> -1, dc |-> 0], [dr |-> 1, dc |-> 0],
                [dr |-> 0, dc |-> -1], [dr |-> 0, dc |-> 1]>>

InGrid(p, nc, nr) == p.row >= 0 /\ p.row < nr /\ p.col >= 0 /\ p.col < nc

\* visited[r][c]: set for the start and for every cell pushed on the path
Visited(p, pth) == \E i \in 1..Len(pth) : pth[i] = p

Step(p, d) == Pos(p.row + d.dr, p.col + d.dc)

Unvisited(p, pth, nc, nr) == InGrid(p, nc, nr) /\ ~Visited(p, pth)

countUnvisitedNeighbors(p, pth, nc, nr) ==
  Cardinality({i \in 1..4 : Unvisited(Step(p, directions[i]), pth, nc, nr)})

\* the unvisited neighbours of the current cell, in the order of directions
Neighbours(cur, pth, nc, nr) ==
  LET Open(p) == Unvisited(p, pth, nc, nr)
  IN SelectSeq(<<Step(cur, directions[1]), Step(cur, directions[2]),
                 Step(cur, directions[3]), Step(cur, directions[4])>>, Open)

\* moves.push({ row, col, score }), lines 275-281.  score is the count plus a
\* noise of u / 0x7fffffff * 0.5 < 0.5: it is kept as the pair (count, u).
RECURSIVE ScoredMoves(_, _, _, _, _, _)
ScoredMoves(moves, pth, nc, nr, us, i) ==
  IF i > Len(moves) THEN <<>>
  ELSE <<[pos |-> moves[i],
          count |-> countUnvisitedNeighbors(moves[i], pth, nc, nr),
          u |-> us[i]]>> \o ScoredMoves(moves, pth, nc, nr, us, i + 1)

\* a.score - b.score < 0: the order of the counts and, between equal counts,
\* of the noise
ScoreLess(a, b) == a.count < b.count \/ (a.count = b.count /\ a.u < b.u)

\* moves.sort((a, b) => a.score - b.score), a stable sort
RECURSIVE InsertMove(_, _)
InsertMove(sorted, m) ==
  IF sorted = <<>> THEN <<m>>
  ELSE IF ScoreLess(m, Head(sorted)) THEN <<m>> \o sorted
  ELSE <<Head(sorted)>> \o InsertMove(Tail(sorted), m)

RECURSIVE SortedMoves(_, _)
SortedMoves(moves, n) ==
  IF n = 0 THEN <<>> ELSE InsertMove(SortedMoves(moves, n - 1), moves[n])

\* the moves in the order of the directions, not sorted
getNextMovesUnsorted(cur, pth, nc, nr, us) ==
  ScoredMoves(Neighbours(cur, pth, nc, nr), pth, nc, nr, us, 1)

getNextMoves(cur, pth, nc, nr, us) ==
  LET moves == ScoredMoves(Neighbours(cur, pth, nc, nr), pth, nc, nr, us, 1)
  IN SortedMoves(moves, Len(moves))

(***************************************************************************)
(* calculateLetterPositions.  positions is 0-based in the code; here       *)
(* positions[i + 1] is the code's positions[i].                            *)
(***************************************************************************)
\* Math.floor(1 + i * spacing) with spacing = (totalCells - 2) / (numLetters - 1)
BasePos(i, totalCells, numLetters) == 1 + ((i * (totalCells - 2)) \div (numLetters - 1))

\* the last letter one cell before the end of the path
RawLetterPosShort(i, positions, totalCells, numLetters, u) ==
  IF i = 0 THEN Min(1 + FloorMul(u, 2), totalCells - numLetters)
  ELSE IF i = numLetters - 1 THEN totalCells - 2
  ELSE LET variation == FloorMul(u, 3) - 1
           pos == Max(positions[i] + 2, BasePos(i, totalCells, numLetters) + variation)
       IN Min(pos, totalCells - (numLetters - i))

\* the first letter without the offset of 1
RawLetterPosFromZero(i, positions, totalCells, numLetters, u) ==
  IF i = 0 THEN Min(FloorMul(u, 2), totalCells - numLetters)
  ELSE IF i = numLetters - 1 THEN totalCells - 1
  ELSE LET variation == FloorMul(u, 3) - 1
           pos == Max(positions[i] + 2, BasePos(i, totalCells, numLetters) + variation)
       IN Min(pos, totalCells - (numLetters - i))

\* the position of letter i (0-based) before the collision check
RawLetterPos(i, positions, totalCells, numLetters, u) ==
  IF i = 0 THEN Min(1 + FloorMul(u, 2), totalCells - numLetters)
  ELSE IF i = numLetters - 1 THEN totalCells - 1
  ELSE LET variation == FloorMul(u, 3) - 1
           pos == Max(positions[i] + 2, BasePos(i, totalCells, numLetters) + variation)
       IN Min(pos, totalCells - (numLetters - i))

\* lines 352-355
LetterPos(i, positions, totalCells, numLetters, u) ==
  LET pos == RawLetterPos(i, positions, totalCells, numLetters, u)
  IN IF i > 0 /\ pos <= positions[i] THEN positions[i] + 2 ELSE pos

\* lines 360-368, the pass over positions[i], i = from..len-1
RECURSIVE RepairFrom(_, _, _)
RepairFrom(positions, i, totalCells) ==
  IF i >= Len(positions) THEN positions
  ELSE LET a == IF positions[i + 1] >= totalCells
                THEN totalCells - 1 - (Len(positions) - 1 - i)
                ELSE positions[i + 1]
           b == IF i > 0 /\ a <= positions[i] THEN positions[i] + 1 ELSE a
       IN RepairFrom([positions EXCEPT ![i + 1] = b], i + 1, totalCells)

\* the rng() calls letter i makes: one for the first and the middle letters
LetterDraws(i, numLetters, cur) ==
  IF i = 0 THEN Draw(cur, IndexValues(2))
  ELSE IF i = numLetters - 1 THEN {[u |-> 0, s |-> cur]}
  ELSE Draw(cur, IndexValues(3))

\* every outcome [positions, s] of calculateLetterPositions from rng state cur
RECURSIVE LetterLoop(_, _, _, _, _)
LetterLoop(i, positions, totalCells, numLetters, cur) ==
  IF i >= numLetters
  THEN {[positions |-> RepairFrom(positions, 0, totalCells), s |-> cur]}
  ELSE UNION {LetterLoop(i + 1,
                         Append(positions, LetterPos(i, positions, totalCells, numLetters, d.u)),
                         totalCells, numLetters, d.s) :
                d \in LetterDraws(i, numLetters, cur)}

calculateLetterPositions(pth, w, cur) == LetterLoop(0, <<>>, Len(pth), Len(w), cur)

\* createGrid: grid[pos.row][pos.col] = word[i] for i = 0..word.length-1, so a
\* later letter overwrites an earlier one on the same cell
LettersAt(c, pth, w, positions) == {i \in 1..Len(w) : pth[positions[i] + 1] = c}

MaxOf(S) == CHOOSE x \in S : \A y \in S : y <= x

\* the loop of createGrid stopping one letter early
createGridShort(nc, nr, pth, w, positions) ==
  [c \in GridCells(nc, nr) |->
     IF LettersAt(c, pth, w, positions) \ {Len(w)} = {} THEN "."
     ELSE w[MaxOf(LettersAt(c, pth, w, positions) \ {Len(w)})]]

createGrid(nc, nr, pth, w, positions) ==
  [c \in GridCells(nc, nr) |->
     IF LettersAt(c, pth, w, positions) = {} THEN "."
     ELSE w[MaxOf(LettersAt(c, pth, w, positions))]]

\* map.set(key, i): the orders counted from 0
createLetterOrderMapFromZero(pth, w, positions) ==
  LET keys == {pth[positions[i] + 1] : i \in 1..Len(w)}
  IN [c \in keys |-> MaxOf(LettersAt(c, pth, w, positions)) - 1]

\* createLetterOrderMap: map.set(`${pos.row},${pos.col}`, i + 1)
createLetterOrderMap(pth, w, positions) ==
  LET keys == {pth[positions[i] + 1] : i \in 1..Len(w)}
  IN [c \in keys |-> MaxOf(LettersAt(c, pth, w, positions))]

\* path[letterPositions[i]] is undefined, and reading its row throws
LetterIndexMissing(pth, w, positions) ==
  \E i \in 1..Len(w) : positions[i] < 0 \/ positions[i] >= Len(pth)

\* generateFallbackLevel, lines 426-437: the snake path
SnakePath(nc, nr) ==
  [k \in 1..(nc * nr) |->
     LET r == (k - 1) \div nc
         j == (k - 1) % nc
     IN IF r % 2 = 0 THEN Pos(r, j) ELSE Pos(r, nc - 1 - j)]


(***************************************************************************)
(* generateWalls                                                           *)
(***************************************************************************)
\* normalizeEdge: the key `r1,c1-r2,c2` with the smaller cell first; the
\* string is held as the pair of cells it spells
normalizeEdge(p1, p2) ==
  IF p1.row < p2.row \/ (p1.row = p2.row /\ p1.col < p2.col)
  THEN <<p1, p2>> ELSE <<p2, p1>>

SegmentKey(seg) == normalizeEdge(seg.cell1, seg.cell2)

\* the edges of the path but the last one
PathEdgesButLast(pth) == {normalizeEdge(pth[i], pth[i + 1]) : i \in 1..(Len(pth) - 2)}

PathEdges(pth) == {normalizeEdge(pth[i], pth[i + 1]) : i \in 1..(Len(pth) - 1)}

\* one wall more in every tier
numWallsOneMore(d) == IF d <= 8 THEN 2 ELSE IF d <= 10 THEN 3 ELSE IF d <= 13 THEN 4 ELSE 5

numWalls(d) == IF d <= 8 THEN 1 ELSE IF d <= 10 THEN 2 ELSE IF d <= 13 THEN 3 ELSE 4

\* every edge of the grid in the order of lines 521-550
GridEdges(nc, nr) ==
  [k \in 1..((nr - 1) * nc) |->
     [cell1 |-> Pos((k - 1) \div nc, (k - 1) % nc),
      cell2 |-> Pos(((k - 1) \div nc) + 1, (k - 1) % nc),
      orientation |-> "horizontal"]]
  \o
  [k \in 1..(nr * (nc - 1)) |->
     [cell1 |-> Pos((k - 1) \div (nc - 1), (k - 1) % (nc - 1)),
      cell2 |-> Pos((k - 1) \div (nc - 1), ((k - 1) % (nc - 1)) + 1),
      orientation |-> "vertical"]]

availableEdges(nc, nr, pathEdges) ==
  LET Free(seg) == SegmentKey(seg) \notin pathEdges
  IN SelectSeq(GridEdges(nc, nr), Free)

Swap(arr, i, j) == [arr EXCEPT ![i] = arr[j], ![j] = arr[i]]

\* lines 560-567: Fisher-Yates for the code's i = from..1; every outcome
RECURSIVE ShuffleFrom(_, _, _)
ShuffleFrom(arr, i, cur) ==
  IF i < 1 THEN {[edges |-> arr, s |-> cur]}
  ELSE UNION {ShuffleFrom(Swap(arr, i + 1, FloorMul(d.u, i + 1) + 1), i - 1, d.s) :
                d \in Draw(cur, IndexValues(i + 1))}

\* edgeMap.has(key)
InEdgeMap(key, available) == \E i \in 1..Len(available) : SegmentKey(available[i]) = key

\* edgeMap.get(key)
EdgeMapGet(key, available) ==
  available[CHOOSE i \in 1..Len(available) : SegmentKey(available[i]) = key]

\* candidates that may be segments the wall already has
CandidatesWithExisting(current, existingSegments, available, used, pathEdges) ==
  LET Cell(k) == IF k <= 4 THEN current.cell1 ELSE current.cell2
      Key(k) == normalizeEdge(Cell(k), Step(Cell(k), directions[((k - 1) % 4) + 1]))
      Ok(k) == /\ InEdgeMap(Key(k), available)
               /\ Key(k) \notin used
               /\ Key(k) \notin pathEdges
      ks == SelectSeq(<<1, 2, 3, 4, 5, 6, 7, 8>>, Ok)
  IN [n \in 1..Len(ks) |-> EdgeMapGet(Key(ks[n]), available)]

\* candidates that may be edges of the walls placed before
CandidatesWithUsed(current, existingSegments, available, used, pathEdges) ==
  LET existingKeys == {SegmentKey(existingSegments[i]) : i \in 1..Len(existingSegments)}
      Cell(k) == IF k <= 4 THEN current.cell1 ELSE current.cell2
      Key(k) == normalizeEdge(Cell(k), Step(Cell(k), directions[((k - 1) % 4) + 1]))
      Ok(k) == /\ InEdgeMap(Key(k), available)
               /\ Key(k) \notin existingKeys
               /\ Key(k) \notin pathEdges
      ks == SelectSeq(<<1, 2, 3, 4, 5, 6, 7, 8>>, Ok)
  IN [n \in 1..Len(ks) |-> EdgeMapGet(Key(ks[n]), available)]

\* findConnectedSegment, lines 650-680: the candidates in the order found
Candidates(current, existingSegments, available, used, pathEdges) ==
  LET existingKeys == {SegmentKey(existingSegments[i]) : i \in 1..Len(existingSegments)}
      Cell(k) == IF k <= 4 THEN current.cell1 ELSE current.cell2
      Key(k) == normalizeEdge(Cell(k), Step(Cell(k), directions[((k - 1) % 4) + 1]))
      Ok(k) == /\ InEdgeMap(Key(k), available)
               /\ Key(k) \notin existingKeys
               /\ Key(k) \notin used
               /\ Key(k) \notin pathEdges
      ks == SelectSeq(<<1, 2, 3, 4, 5, 6, 7, 8>>, Ok)
  IN [n \in 1..Len(ks) |-> EdgeMapGet(Key(ks[n]), available)]

\* buildMultiSegmentWall, lines 615-630: the loop from i to targetLength - 1
RECURSIVE ExtendWall(_, _, _, _, _, _, _, _)
ExtendWall(segments, current, i, targetLength, available, used, pathEdges, cur) ==
  LET cands == Candidates(current, segments, available, used, pathEdges)
  IN IF i >= targetLength \/ Len(cands) = 0
     THEN {[segments |-> segments, s |-> cur]}
     ELSE UNION {LET nextSegment == cands[FloorMul(d.u, Len(cands)) + 1]
                 IN ExtendWall(Append(segments, nextSegment), nextSegment, i + 1,
                               targetLength, available, used, pathEdges, d.s) :
                   d \in Draw(cur, IndexValues(Len(cands)))}

\* the loop of buildMultiSegmentWall one iteration short
buildMultiSegmentWallShort(startEdge, available, used, pathEdges, cur) ==
  UNION {ExtendWall(<<startEdge>>, startEdge, 1,
                    IF LessThan06(d.u) THEN 1 ELSE 2,
                    available, used, pathEdges, d.s) :
           d \in Draw(cur, ShortWallValues)}

\* every outcome [segments, s] of buildMultiSegmentWall; fewer than 2
\* segments stand for the null it returns
buildMultiSegmentWall(startEdge, available, used, pathEdges, cur) ==
  UNION {ExtendWall(<<startEdge>>, startEdge, 1,
                    IF LessThan06(d.u) THEN 2 ELSE 3,
                    available, used, pathEdges, d.s) :
           d \in Draw(cur, ShortWallValues)}


(***************************************************************************)
(* The generator, step by step.                                            *)
(***************************************************************************)
\* one stream for every instance: a generator made after a level was
\* returned goes on from the state the last one left
seededRandomShared(sd) == IF pc = "done" THEN s ELSE sd

\* new LevelGenerator(seed): seededRandom starts from s = seed
seededRandom(sd) == sd

LevelConfig(w, start, d, nc, nr, pth, positions, ws) ==
  [word |-> w,
   grid |-> createGrid(nc, nr, pth, w, positions),
   startPosition |-> start,
   difficulty |-> d,
   gridCols |-> nc,
   gridRows |-> nr,
   letterOrderByPosition |-> createLetterOrderMap(pth, w, positions),
   walls |-> ws]

\* A LevelGenerator just constructed, before generateLevel is called.
Constructed(sd, q) ==
  /\ pc = "idle"
  /\ seed = sd
  /\ s = seededRandom(sd)
  /\ small = q
  /\ difficulty = 0 /\ word = <<>> /\ cols = 0 /\ rows = 0
  /\ attempts = 0
  /\ startPos = NoPos /\ path = <<>>
  /\ fallback = FALSE
  /\ letterPositions = <<>>
  /\ shuffledEdges = <<>> /\ scanIdx = 0 /\ walls = <<>> /\ usedEdges = {}
  /\ level = NoLevel
  /\ firstLevel = NoLevel
  /\ scene = NoScene
  /\ rngCalls = 0

\* generateLevel on a small input at the head of its last iteration: the 99
\* iterations before it failed and left nothing behind but the counter.
LastIteration(q, d) ==
  /\ pc = "loop"
  /\ seed = 0
  /\ s = seededRandom(0)
  /\ small = q
  /\ difficulty = d /\ word = q.word /\ cols = q.cols /\ rows = q.rows
  /\ attempts = maxAttempts - 1
  /\ startPos = NoPos /\ path = <<>>
  /\ fallback = FALSE
  /\ letterPositions = <<>>
  /\ shuffledEdges = <<>> /\ scanIdx = 0 /\ walls = <<>> /\ usedEdges = {}
  /\ level = NoLevel
  /\ firstLevel = NoLevel
  /\ scene = NoScene
  /\ rngCalls = 0

\* The seeded generator on the tables of the source.
InitSeeded == \E sd \in 1..MaxSeed : Constructed(sd, NoSmall)

\* Math.random on every small input, one attempt and the fallback.
InitSmall == \E q \in SmallInputs, d \in SmallDifficulties : LastIteration(q, d)

\* Math.random on the small inputs, all 100 attempts.
InitLoop == \E q \in SmallInputs : Constructed(0, q)

Init == InitSeeded \/ InitSmall

\* generateLevel, lines 105-134
GenerateLevel ==
  /\ pc = "idle"
  /\ \E d \in (IF seeded THEN 1..MaxDifficulty ELSE {LoopDifficulty}) :
       /\ difficulty' = d
       /\ word' = (IF seeded THEN LevelWord(d) ELSE small.word)
       /\ cols' = (IF seeded THEN LevelGrid(d).cols ELSE small.cols)
       /\ rows' = (IF seeded THEN LevelGrid(d).rows ELSE small.rows)
  /\ attempts' = 0
  /\ pc' = "loop"
  /\ UNCHANGED <<seed, s, small, startPos, path, fallback, letterPositions,
                 shuffledEdges, scanIdx, walls, usedEdges, level, firstLevel, scene, rngCalls>>

\* one attempt more than maxAttempts
LoopContinuesOnceMore(n) == n <= maxAttempts

\* while (attempts < maxAttempts), line 136
LoopContinues(n) == n < maxAttempts

\* lines 136-138 and tryGenerateLevel up to the start of the path loop
TryGenerateLevel ==
  /\ pc = "loop"
  /\ LoopContinues(attempts)
  /\ attempts' = attempts + 1
  /\ \E d \in Draw(s, IndexValues(Len(StartPositions(cols, rows, difficulty)))) :
       /\ startPos' = chooseStartPosition(cols, rows, difficulty, d.u)
       /\ s' = d.s
  /\ path' = <<startPos'>>
  /\ pc' = "path"
  /\ UNCHANGED <<seed, small, difficulty, word, cols, rows, fallback, letterPositions,
                 shuffledEdges, scanIdx, walls, usedEdges, level, firstLevel, scene, rngCalls>>

\* one iteration of the while loop of generateHamiltonianPath, lines 295-313;
\* a dead end returns null to the loop of generateLevel
PathStep ==
  /\ pc = "path"
  /\ LET current == path[Len(path)]
         k == Len(Neighbours(current, path, cols, rows))
     IN IF k = 0
        THEN /\ pc' = "loop"
             /\ path' = <<>>
             /\ startPos' = NoPos
             /\ s' = s
        ELSE \E ds \in DrawSeq(s, k, NoiseValues(k)) :
             \E d \in (IF k > 1 THEN Draw(ds.s, SecondBestValues)
                                ELSE {[u |-> 0, s |-> ds.s]}) :
               LET nextMoves == getNextMoves(current, path, cols, rows, ds.us)
                   nextIdx == IF k > 1 /\ LessThan015(d.u) THEN 1 ELSE 0
               IN /\ path' = Append(path, nextMoves[nextIdx + 1].pos)
                  /\ s' = d.s
                  /\ startPos' = startPos
                  /\ pc' = (IF Len(path) + 1 = cols * rows THEN "letters" ELSE "path")
  /\ UNCHANGED <<seed, small, difficulty, word, cols, rows, attempts, fallback,
                 letterPositions, shuffledEdges, scanIdx, walls, usedEdges, level,
                 firstLevel, scene, rngCalls>>

\* lines 144-145 and generateFallbackLevel, lines 426-437
FallbackLevel ==
  /\ pc = "loop"
  /\ ~LoopContinues(attempts)
  /\ fallback' = TRUE
  /\ path' = SnakePath(cols, rows)
  /\ pc' = "letters"
  /\ UNCHANGED <<seed, s, small, difficulty, word, cols, rows, attempts, startPos,
                 letterPositions, shuffledEdges, scanIdx, walls, usedEdges, level,
                 firstLevel, scene, rngCalls>>

\* calculateLetterPositions; createGrid and createLetterOrderMap read
\* path[letterPositions[i]] and throw when it is undefined
PlaceLetters ==
  /\ pc = "letters"
  /\ \E out \in calculateLetterPositions(path, word, s) :
       /\ letterPositions' = out.positions
       /\ s' = out.s
       /\ pc' = (IF LetterIndexMissing(path, word, out.positions) THEN "threw" ELSE "walls")
  /\ UNCHANGED <<seed, small, difficulty, word, cols, rows, attempts, startPos, path,
                 fallback, shuffledEdges, scanIdx, walls, usedEdges, level, firstLevel,
                 scene, rngCalls>>

ReturnedLevel(ws) ==
  LevelConfig(word, IF fallback THEN Pos(0, 0) ELSE startPos, difficulty, cols, rows,
              path, letterPositions, ws)

\* generateWalls, lines 490-567: no wall below difficulty 7, else the shuffle
StartWalls ==
  /\ pc = "walls"
  /\ IF difficulty < 7
     THEN /\ level' = ReturnedLevel(<<>>)
          /\ pc' = "done"
          /\ UNCHANGED <<s, shuffledEdges, scanIdx, attempts>>
     ELSE LET available == availableEdges(cols, rows, PathEdges(path))
          IN /\ \E sh \in ShuffleFrom(available, Len(available) - 1, s) :
                  /\ shuffledEdges' = sh.edges
                  /\ s' = sh.s
             /\ scanIdx' = 1
             /\ pc' = "scan"
             /\ UNCHANGED <<level, attempts>>
  /\ UNCHANGED <<seed, small, difficulty, word, cols, rows, startPos, path, fallback,
                 letterPositions, walls, usedEdges, firstLevel, scene, rngCalls>>

\* one iteration of the loop of lines 573-594, or its end and the return of
\* the LevelConfig
ScanStep ==
  /\ pc = "scan"
  /\ IF scanIdx > Len(shuffledEdges) \/ Len(walls) >= numWalls(difficulty)
     THEN /\ level' = ReturnedLevel(walls)
          /\ pc' = "done"
          /\ attempts' = attempts
          /\ shuffledEdges' = <<>> /\ scanIdx' = 0 /\ walls' = <<>> /\ usedEdges' = {}
          /\ s' = s
     ELSE LET startEdge == shuffledEdges[scanIdx]
              pathEdges == PathEdges(path)
              available == availableEdges(cols, rows, pathEdges)
          IN /\ scanIdx' = scanIdx + 1
             /\ UNCHANGED <<level, pc, attempts, shuffledEdges>>
             /\ IF SegmentKey(startEdge) \in usedEdges
                THEN UNCHANGED <<s, walls, usedEdges>>
                ELSE \E out \in buildMultiSegmentWall(startEdge, available, usedEdges,
                                                      pathEdges, s) :
                       /\ s' = out.s
                       /\ IF Len(out.segments) >= 2
                          THEN /\ walls' = Append(walls, [segments |-> out.segments])
                               /\ usedEdges' = usedEdges \cup
                                    {SegmentKey(out.segments[i]) : i \in 1..Len(out.segments)}
                          ELSE UNCHANGED <<walls, usedEdges>>
  /\ UNCHANGED <<seed, small, difficulty, word, cols, rows, startPos, path, fallback,
                 letterPositions, firstLevel, scene, rngCalls>>

\* generateLevel(difficulty, seed) called again with the same seed: a new
\* LevelGenerator(seed) generates the same difficulty
SecondInstance ==
  /\ pc = "done"
  /\ seeded
  /\ firstLevel = NoLevel
  /\ firstLevel' = level
  /\ s' = seededRandom(seed)
  /\ level' = NoLevel
  /\ attempts' = 0
  /\ startPos' = NoPos /\ path' = <<>> /\ fallback' = FALSE /\ letterPositions' = <<>>
  /\ pc' = "loop"
  /\ UNCHANGED <<seed, small, difficulty, word, cols, rows, shuffledEdges, scanIdx,
                 walls, usedEdges, scene, rngCalls>>

(***************************************************************************)
(* Level1Scene.  scene is the scene object: path, the isConnected flags of *)
(* the cells (the set of the cells whose flag is set), currentCell (NoPos  *)
(* for null) and the flags.  unnamed/part_002 is the scene with the        *)
(* terminal-letter rule, the tutorial pause and usedUndo; unnamed/part_003 *)
(* is the scene without them.  The cells read their letter and their       *)
(* letterOrder from currentLevelConfig, which is level.                    *)
(***************************************************************************)
Variants == {"part_002", "part_003"}

\* createCell: type is "letter" when the grid holds a letter, and letterOrder
\* is letterOrderByPosition.get(`${row},${col}`), undefined when absent
IsLetter(cell) == level.grid[cell] # "."

HasLetterOrder(cell) == IsLetter(cell) /\ cell \in DOMAIN level.letterOrderByPosition

letterOrder(cell) == level.letterOrderByPosition[cell]

\* only the first segment of every wall blocks
buildWallBlockedEdgesFirstSegment(ws) ==
  {SegmentKey(ws[i].segments[1]) : i \in 1..Len(ws)}

\* part_002, lines 290-304
buildWallBlockedEdges(ws) ==
  UNION {{SegmentKey(ws[i].segments[j]) : j \in 1..Len(ws[i].segments)} : i \in 1..Len(ws)}

Abs(n) == IF n < 0 THEN -n ELSE n

isOrthogonallyAdjacent(cell1, cell2) ==
  LET rowDiff == Abs(cell1.row - cell2.row)
      colDiff == Abs(cell1.col - cell2.col)
  IN (rowDiff = 1 /\ colDiff = 0) \/ (rowDiff = 0 /\ colDiff = 1)

\* adjacency that ignores the walls
isAdjacentThroughWalls(sc, cell1, cell2) == isOrthogonallyAdjacent(cell1, cell2)

\* part_002, lines 1822-1839
isAdjacent(sc, cell1, cell2) ==
  /\ isOrthogonallyAdjacent(cell1, cell2)
  /\ normalizeEdge(cell1, cell2) \notin sc.wallBlockedEdges

\* Math.round(100 * (1 + timeRemaining / maxTime) * streakMultiplier), lines
\* 2430-2442, with streakMultiplier = 1 + (streak - 1) * 0.25 for a perfect
\* level of a streak of 2 or more, in quarters; Math.round rounds a half up
pointsEarned(sc, isPerfect, streak) ==
  LET quarters == IF isPerfect /\ streak >= 2 THEN 4 + (streak - 1) ELSE 4
      num == 100 * ((sc.maxTime + sc.timeRemaining) \div 250) * quarters
      den == 4 * (sc.maxTime \div 250)
  IN (2 * num + den) \div (2 * den)

\* part_002, lines 2405-2543: the flag, the streak, the score and the timer
\* of 2 seconds that calls goToNextLevel.  part_003 is modelled up to the
\* flag.
showVictory(sc) ==
  IF sc.variant # "part_002" THEN [sc EXCEPT !.gameWon = TRUE]
  ELSE LET isPerfect == ~sc.usedUndo
           streak == IF isPerfect THEN sc.perfectStreak + 1 ELSE 0
       IN [sc EXCEPT !.gameWon = TRUE,
                     !.perfectStreak = streak,
                     !.score = @ + pointsEarned(sc, isPerfect, streak),
                     !.pending = @ \cup {"goToNextLevel"}]

\* a win that does not look at the letter of the last cell
checkWinConditionAnyEnd(sc) ==
  IF Len(sc.path) # sc.totalCells THEN sc
  ELSE IF sc.nextExpectedLetter # Len(level.word) + 1 THEN sc
  ELSE showVictory(sc)

\* part_002, lines 1871-1886
checkWinCondition(sc) ==
  IF Len(sc.path) # sc.totalCells THEN sc
  ELSE IF level.grid[sc.path[Len(sc.path)]] # level.word[Len(level.word)] THEN sc
  ELSE IF sc.nextExpectedLetter # Len(level.word) + 1 THEN sc
  ELSE showVictory(sc)

\* the final letter refused on the last cell as well
TerminalLetterAlways(sc, cell) ==
  /\ sc.variant = "part_002"
  /\ letterOrder(cell) = Len(level.word)
  /\ Len(sc.path) + 1 <= sc.totalCells

\* part_002, lines 1681-1691: the final letter before the grid is full
TerminalLetterEarly(sc, cell) ==
  /\ sc.variant = "part_002"
  /\ letterOrder(cell) = Len(level.word)
  /\ Len(sc.path) + 1 < sc.totalCells

\* activateCell without the terminal-letter rule
activateCellNoTerminalRule(sc, cell) ==
  IF cell \in sc.isConnected \/ sc.gameWon THEN sc
  ELSE IF HasLetterOrder(cell) /\ letterOrder(cell) # sc.nextExpectedLetter THEN sc
  ELSE checkWinCondition(
         [sc EXCEPT !.nextExpectedLetter = IF HasLetterOrder(cell) THEN @ + 1 ELSE @,
                    !.isConnected = @ \cup {cell},
                    !.path = Append(@, cell),
                    !.currentCell = cell])

\* activateCell counting every cell as a letter
activateCellCountsAll(sc, cell) ==
  IF cell \in sc.isConnected \/ sc.gameWon THEN sc
  ELSE IF HasLetterOrder(cell) /\ letterOrder(cell) # sc.nextExpectedLetter THEN sc
  ELSE IF HasLetterOrder(cell) /\ TerminalLetterEarly(sc, cell) THEN sc
  ELSE checkWinCondition(
         [sc EXCEPT !.nextExpectedLetter = @ + 1,
                    !.isConnected = @ \cup {cell},
                    !.path = Append(@, cell),
                    !.currentCell = cell])

\* part_002, lines 1670-1756
activateCell(sc, cell) ==
  IF cell \in sc.isConnected \/ sc.gameWon THEN sc
  ELSE IF HasLetterOrder(cell) /\ letterOrder(cell) # sc.nextExpectedLetter THEN sc
  ELSE IF HasLetterOrder(cell) /\ TerminalLetterEarly(sc, cell) THEN sc
  ELSE checkWinCondition(
         [sc EXCEPT !.nextExpectedLetter = IF HasLetterOrder(cell) THEN @ + 1 ELSE @,
                    !.isConnected = @ \cup {cell},
                    !.path = Append(@, cell),
                    !.currentCell = cell])

\* this.path.splice(this.path.indexOf(cell), 1)
RemoveFirst(pth, cell) ==
  IF \E i \in 1..Len(pth) : pth[i] = cell
  THEN LET index == CHOOSE i \in 1..Len(pth) :
                      pth[i] = cell /\ \A j \in 1..(i - 1) : pth[j] # cell
       IN SubSeq(pth, 1, index - 1) \o SubSeq(pth, index + 1, Len(pth))
  ELSE pth

\* an undo that leaves nextExpectedLetter as it is
deactivateCellKeepsLetter(sc, cell) ==
  IF cell \notin sc.isConnected \/ (sc.path # <<>> /\ cell = sc.path[1]) THEN sc
  ELSE LET pth == RemoveFirst(sc.path, cell)
       IN [sc EXCEPT !.usedUndo = (@ \/ sc.variant = "part_002"),
                     !.isConnected = @ \ {cell},
                     !.path = pth,
                     !.currentCell = IF pth = <<>> THEN NoPos ELSE pth[Len(pth)]]

\* an undo that leaves the cell's isConnected flag set
deactivateCellKeepsConnected(sc, cell) ==
  IF cell \notin sc.isConnected \/ (sc.path # <<>> /\ cell = sc.path[1]) THEN sc
  ELSE LET pth == RemoveFirst(sc.path, cell)
       IN [sc EXCEPT !.usedUndo = (@ \/ sc.variant = "part_002"),
                     !.nextExpectedLetter = IF HasLetterOrder(cell) THEN @ - 1 ELSE @,
                     !.path = pth,
                     !.currentCell = IF pth = <<>> THEN NoPos ELSE pth[Len(pth)]]

\* part_002, lines 1758-1820
deactivateCell(sc, cell) ==
  IF cell \notin sc.isConnected \/ (sc.path # <<>> /\ cell = sc.path[1]) THEN sc
  ELSE LET pth == RemoveFirst(sc.path, cell)
       IN [sc EXCEPT !.usedUndo = (@ \/ sc.variant = "part_002"),
                     !.nextExpectedLetter = IF HasLetterOrder(cell) THEN @ - 1 ELSE @,
                     !.isConnected = @ \ {cell},
                     !.path = pth,
                     !.currentCell = IF pth = <<>> THEN NoPos ELSE pth[Len(pth)]]

\* the while loop of resetBoard: pop, then deactivateCell
RECURSIVE PopAll(_)
PopAll(sc) ==
  IF Len(sc.path) > 1
  THEN PopAll(deactivateCell([sc EXCEPT !.path = SubSeq(@, 1, Len(@) - 1)],
                             sc.path[Len(sc.path)]))
  ELSE sc

\* a reset whose loop runs once
resetBoardOneCell(sc) ==
  IF sc.gameWon \/ Len(sc.path) <= 1 THEN sc
  ELSE [deactivateCell([sc EXCEPT !.path = SubSeq(@, 1, Len(@) - 1)],
                       sc.path[Len(sc.path)])
          EXCEPT !.nextExpectedLetter = 1, !.currentCell = sc.path[1]]

\* part_002, lines 1612-1643
resetBoard(sc) ==
  IF sc.gameWon \/ Len(sc.path) <= 1 THEN sc
  ELSE [PopAll(sc) EXCEPT !.nextExpectedLetter = 1, !.currentCell = sc.path[1]]

\* a pointer down that undoes on any connected cell
onPointerDownUndoAny(sc, cell) ==
  IF sc.gamePaused THEN sc
  ELSE LET dragging == [sc EXCEPT !.isDragging = TRUE]
       IN IF cell = NoPos THEN dragging
          ELSE IF cell \in sc.isConnected
          THEN IF Len(sc.path) >= 2
               THEN deactivateCell(dragging, sc.currentCell)
               ELSE dragging
          ELSE IF sc.currentCell # NoPos /\ isAdjacent(sc, sc.currentCell, cell)
          THEN activateCell(dragging, cell)
          ELSE dragging

\* part_002, lines 1890-1915; cell is NoPos when the pointer is on no cell
onPointerDown(sc, cell) ==
  IF sc.gamePaused THEN sc
  ELSE LET dragging == [sc EXCEPT !.isDragging = TRUE]
       IN IF cell = NoPos THEN dragging
          ELSE IF cell \in sc.isConnected
          THEN IF Len(sc.path) >= 2 /\ cell = sc.path[Len(sc.path) - 1]
               THEN deactivateCell(dragging, sc.currentCell)
               ELSE dragging
          ELSE IF sc.currentCell # NoPos /\ isAdjacent(sc, sc.currentCell, cell)
          THEN activateCell(dragging, cell)
          ELSE dragging

\* a pointer move whose undo deactivates the cell under the pointer
onPointerMoveUndoTarget(sc, cell) ==
  IF sc.gamePaused THEN sc
  ELSE IF ~sc.isDragging \/ sc.currentCell = NoPos THEN sc
  ELSE IF cell = NoPos THEN sc
  ELSE IF cell = sc.currentCell THEN sc
  ELSE IF Len(sc.path) >= 2 /\ cell = sc.path[Len(sc.path) - 1]
  THEN deactivateCell(sc, cell)
  ELSE IF isAdjacent(sc, sc.currentCell, cell) /\ cell \notin sc.isConnected
  THEN activateCell(sc, cell)
  ELSE sc

\* part_002, lines 1917-1939
onPointerMove(sc, cell) ==
  IF sc.gamePaused THEN sc
  ELSE IF ~sc.isDragging \/ sc.currentCell = NoPos THEN sc
  ELSE IF cell = NoPos THEN sc
  ELSE IF cell = sc.currentCell THEN sc
  ELSE IF Len(sc.path) >= 2 /\ cell = sc.path[Len(sc.path) - 1]
  THEN deactivateCell(sc, sc.currentCell)
  ELSE IF isAdjacent(sc, sc.currentCell, cell) /\ cell \notin sc.isConnected
  THEN activateCell(sc, cell)
  ELSE sc

onPointerUp(sc) == [sc EXCEPT !.isDragging = FALSE]

\* part_002, lines 731-746: the flag and the SDK's gameOver
handleGameOver(sc) ==
  IF sc.isGameOver THEN sc
  ELSE [sc EXCEPT !.isGameOver = TRUE, !.gameOverReported = TRUE]

\* part_002, lines 596-620: the timer; delta in milliseconds
update(sc, delta) ==
  IF sc.gamePaused THEN sc
  ELSE IF ~sc.gameWon /\ ~sc.isGameOver /\ sc.timeRemaining > 0
  THEN LET ticked == [sc EXCEPT !.timeRemaining = Max(@ - delta, 0)]
       IN IF ticked.timeRemaining <= 0 /\ ~ticked.isGameOver
          THEN handleGameOver(ticked)
          ELSE ticked
  ELSE sc

\* part_002, lines 2559-2563: the closure of goToNextLevel; scene.restart
\* queues the restart, which the scene manager carries out at the next frame
doRestart(sc) ==
  IF sc.doRestart.transitioned THEN sc
  ELSE [sc EXCEPT !.doRestart.transitioned = TRUE,
                  !.restartQueue = Append(@, [level |-> sc.doRestart.nextLevel,
                                              score |-> sc.doRestart.currentScore])]

\* part_002, lines 2545-2570: the camera event and the timer of 1 second
\* that both call doRestart
goToNextLevel(sc) ==
  IF sc.isGameOver THEN sc
  ELSE [sc EXCEPT !.isGameOver = TRUE,
                  !.doRestart = [nextLevel |-> sc.currentLevel + 1,
                                 currentScore |-> sc.score,
                                 transitioned |-> FALSE],
                  !.pending = @ \cup {"camerafadeoutcomplete", "fallback"}]

\* part_002, lines 706-711: the handler of the SDK's play again
onPlayAgain(sc) ==
  [sc EXCEPT !.perfectStreak = 0,
             !.restartQueue = Append(@, [level |-> 1, score |-> 0])]

\* init, lines 244-257: the seconds of a level
levelTime(lv) ==
  IF lv >= 12 THEN 40
  ELSE IF lv >= 10 THEN 32
  ELSE 20 + Min((lv - 1) \div 3, 3) * 3

\* init that keeps the path of the level before
initStateKeepsPath(sc, data) ==
  [sc EXCEPT !.currentLevel = data.level,
             !.score = data.score,
             !.isConnected = {},
             !.gameWon = FALSE,
             !.isGameOver = FALSE,
             !.gameOverReported = FALSE,
             !.isDragging = FALSE,
             !.currentCell = NoPos,
             !.nextExpectedLetter = 1,
             !.totalCells = 0,
             !.wallBlockedEdges = {},
             !.gamePaused = (sc.variant = "part_002"),
             !.usedUndo = FALSE,
             !.timeRemaining = levelTime(data.level) * 1000,
             !.maxTime = levelTime(data.level) * 1000]

\* init, lines 217-263, up to the call of generateLevel; the times are in
\* milliseconds.  cells = [] leaves no connected cell; gameOverReported says
\* that the SDK's gameOver was called for this level.
initState(sc, data) ==
  [sc EXCEPT !.currentLevel = data.level,
             !.score = data.score,
             !.path = <<>>,
             !.isConnected = {},
             !.gameWon = FALSE,
             !.isGameOver = FALSE,
             !.gameOverReported = FALSE,
             !.isDragging = FALSE,
             !.currentCell = NoPos,
             !.nextExpectedLetter = 1,
             !.totalCells = 0,
             !.wallBlockedEdges = {},
             !.gamePaused = (sc.variant = "part_002"),
             !.usedUndo = FALSE,
             !.timeRemaining = levelTime(data.level) * 1000,
             !.maxTime = levelTime(data.level) * 1000]

\* init, lines 265-287, after generateLevel has returned
initLevel(sc) == [sc EXCEPT !.wallBlockedEdges = buildWallBlockedEdges(level.walls)]

\* create, lines 319-345: createGrid counts the cells and the start cell is
\* activated
create(sc) ==
  activateCell([sc EXCEPT !.created = TRUE,
                          !.totalCells = level.gridRows * level.gridCols],
               level.startPosition)

\* init and create of a scene of version v; generateLevel(this.currentLevel)
\* has returned level, so data.level is level.difficulty
NewScene(v) ==
  create(initLevel(initState([scene EXCEPT !.variant = v],
                             [level |-> level.difficulty, score |-> scene.score])))

Cells == GridCells(cols, rows)

Create ==
  /\ pc = "done"
  /\ ~seeded
  /\ ~scene.created
  /\ \E v \in Variants :
       /\ scene.variant \in {"none", v}
       /\ scene' = NewScene(v)
  /\ UNCHANGED genVars

\* checkFirstTimePlayer or the end of the tutorial, lines 350, 380 and 579
StartGame ==
  /\ scene.created
  /\ scene.gamePaused
  /\ scene' = [scene EXCEPT !.gamePaused = FALSE]
  /\ UNCHANGED genVars

OnPointerDown ==
  /\ scene.created
  /\ \E cell \in Cells \cup {NoPos} : scene' = onPointerDown(scene, cell)
  /\ UNCHANGED genVars

OnPointerMove ==
  /\ scene.created
  /\ \E cell \in Cells \cup {NoPos} : scene' = onPointerMove(scene, cell)
  /\ UNCHANGED genVars

OnPointerUp ==
  /\ scene.created
  /\ scene' = onPointerUp(scene)
  /\ UNCHANGED genVars

\* the undo button, lines 1605-1607
ResetBoard ==
  /\ scene.created
  /\ scene' = resetBoard(scene)
  /\ UNCHANGED genVars

\* The frames between two events, taken together: three quarters of the
\* level's time pass, so the second update runs into the clamp at 0.
Deltas(sc) == {3 * (sc.maxTime \div 4)}

Update ==
  /\ scene.created
  /\ \E delta \in Deltas(scene) : scene' = update(scene, delta)
  /\ UNCHANGED genVars

\* this.time.delayedCall(2000, ...) of showVictory fires
GoToNextLevel ==
  /\ scene.created
  /\ "goToNextLevel" \in scene.pending
  /\ scene' = goToNextLevel([scene EXCEPT !.pending = @ \ {"goToNextLevel"}])
  /\ UNCHANGED genVars

\* the camera emits camerafadeoutcomplete; the listener was added with once
FadeOutComplete ==
  /\ scene.created
  /\ "camerafadeoutcomplete" \in scene.pending
  /\ scene' = doRestart([scene EXCEPT !.pending = @ \ {"camerafadeoutcomplete"}])
  /\ UNCHANGED genVars

\* this.time.delayedCall(1000, doRestart) fires
FallbackTimer ==
  /\ scene.created
  /\ "fallback" \in scene.pending
  /\ scene' = doRestart([scene EXCEPT !.pending = @ \ {"fallback"}])
  /\ UNCHANGED genVars

\* The SDK shows its game-over screen after gameOver was called, and calls
\* the play-again handler once when the player asks for a new game.
PlayAgain ==
  /\ scene.created
  /\ scene.gameOverReported
  /\ scene.restartQueue = <<>>
  /\ scene' = onPlayAgain(scene)
  /\ UNCHANGED genVars

\* The scene manager carries out a queued scene.restart(data): the scene is
\* shut down, which removes its timers and the listeners of its camera, and
\* init(data) runs up to generateLevel(this.currentLevel).  The level is
\* generated on the same small input as before; every attempt is taken to
\* run into a dead end, so the level is the fallback level.
Restart ==
  /\ scene.created
  /\ scene.restartQueue # <<>>
  /\ scene.restarts < MaxRestarts
  /\ LET data == Head(scene.restartQueue)
     IN /\ scene' = initState([scene EXCEPT !.created = FALSE,
                                            !.pending = {},
                                            !.restartQueue = Tail(@),
                                            !.restarts = @ + 1],
                              data)
        /\ difficulty' = data.level
  /\ pc' = "loop"
  /\ attempts' = maxAttempts
  /\ startPos' = NoPos /\ path' = <<>>
  /\ fallback' = FALSE
  /\ letterPositions' = <<>>
  /\ shuffledEdges' = <<>> /\ scanIdx' = 0 /\ walls' = <<>> /\ usedEdges' = {}
  /\ level' = NoLevel
  /\ UNCHANGED <<seed, s, small, word, cols, rows, firstLevel, rngCalls>>

Next ==
  \/ GenerateLevel
  \/ TryGenerateLevel
  \/ PathStep
  \/ FallbackLevel
  \/ PlaceLetters
  \/ StartWalls
  \/ ScanStep
  \/ SecondInstance

Spec == Init /\ [][Next]_vars

\* generateLevel from its first attempt to its return
SpecLoop == (InitSeeded \/ InitLoop) /\ [][Next]_vars

\* init generates the level with Math.random; then the scene is played
InitPlay == \E q \in SmallInputs : LastIteration(q, PlayDifficulty)

NextPlay ==
  \/ TryGenerateLevel
  \/ PathStep
  \/ FallbackLevel
  \/ PlaceLetters
  \/ StartWalls
  \/ ScanStep
  \/ Create
  \/ StartGame
  \/ OnPointerDown
  \/ OnPointerMove
  \/ OnPointerUp
  \/ ResetBoard

SpecPlay == InitPlay /\ [][NextPlay]_vars

\* The scene of part_002 from level to level.  It is entered at the level
\* before PlayDifficulty with the score of that many levels won at 125
\* points each, on the small input of 3 by 3 cells, the smallest whose
\* fallback level has walls, after the last attempt of generateLevel has
\* failed.
LifeInputs == {q \in SmallInputs : q.cols = 3 /\ q.rows = 3}

LifeStart == [level |-> PlayDifficulty - 1, score |-> 125 * (PlayDifficulty - 2)]

InitLife ==
  \E q \in LifeInputs :
    /\ pc = "loop"
    /\ seed = 0
    /\ s = seededRandom(0)
    /\ small = q
    /\ difficulty = LifeStart.level /\ word = q.word /\ cols = q.cols /\ rows = q.rows
    /\ attempts = maxAttempts
    /\ startPos = NoPos /\ path = <<>>
    /\ fallback = FALSE
    /\ letterPositions = <<>>
    /\ shuffledEdges = <<>> /\ scanIdx = 0 /\ walls = <<>> /\ usedEdges = {}
    /\ level = NoLevel
    /\ firstLevel = NoLevel
    /\ scene = initState([NoScene EXCEPT !.variant = "part_002"], LifeStart)
    /\ rngCalls = 0

NextLife ==
  \/ FallbackLevel
  \/ PlaceLetters
  \/ StartWalls
  \/ ScanStep
  \/ Create
  \/ StartGame
  \/ OnPointerDown
  \/ OnPointerMove
  \/ OnPointerUp
  \/ ResetBoard
  \/ Update
  \/ GoToNextLevel
  \/ FadeOutComplete
  \/ FallbackTimer
  \/ PlayAgain
  \/ Restart

SpecLife == InitLife /\ [][NextLife]_vars

(***************************************************************************)
(* seededRandom on its own: a generator is constructed with a seed and its *)
(* rng() is called MaxCalls times.                                         *)
(***************************************************************************)
\* Seeds of every kind: small ones, negative ones, the largest 32-bit ones,
\* the ends of the range where the product is exact (|s| < 2^53 /
\* 1103515245), and the two seeds nearest to 0 whose exact product plus
\* 12345 ends in 31 one bits.
RngSeeds ==
  {sd \in (0 - MaxSeed)..MaxSeed : sd # 0}
    \cup {12345, 8162278, 8162279, -8162278, -8162279, RngModulus, RngModulus - 1,
          0 - RngModulus, 230538014, -1916945634}

\* the closure seededRandom returns, lines 97-100: the state after one call
rng(cur) == IF cur >= 0 THEN LcgStep(cur) ELSE LcgStepNegative(cur)

InitRng == \E sd \in RngSeeds : Constructed(sd, NoSmall)

RngCall ==
  /\ pc = "idle"
  /\ rngCalls < MaxCalls
  /\ s' = rng(s)
  /\ rngCalls' = rngCalls + 1
  /\ UNCHANGED <<seed, small, pc, difficulty, word, cols, rows, attempts, startPos,
                 path, fallback, letterPositions, shuffledEdges, scanIdx, walls,
                 usedEdges, level, firstLevel, scene>>

NextRng == RngCall

SpecRng == InitRng /\ [][NextRng]_vars

(***************************************************************************)
(* The generator's contract.                                               *)
(***************************************************************************)
\* tryGenerateLevel or generateFallbackLevel holds a path it has accepted
PathAccepted == pc \in {"letters", "walls", "scan", "done", "threw"}

\* calculateLetterPositions has returned
LettersPlaced == pc \in {"walls", "scan", "done"}

DiffersByOne(p, q) ==
  \/ (p.row = q.row /\ (p.col - q.col = 1 \/ q.col - p.col = 1))
  \/ (p.col = q.col /\ (p.row - q.row = 1 \/ q.row - p.row = 1))

\* the 0-based index of a cell on the path
PathIndex(c) == (CHOOSE i \in 1..Len(path) : path[i] = c) - 1

\* C1: every path the generator accepts, Hamiltonian or snake, has cols*rows
\* positions, holds every cell of the grid exactly once, and any two
\* consecutive positions differ by exactly 1 in row or in column.
C1_PathValid ==
  PathAccepted =>
    /\ Len(path) = cols * rows
    /\ {path[i] : i \in 1..Len(path)} = GridCells(cols, rows)
    /\ \A i, j \in 1..Len(path) : i # j => path[i] # path[j]
    /\ \A i \in 1..(Len(path) - 1) : DiffersByOne(path[i], path[i + 1])

\* a Hamiltonian path of the seeded generator has just been accepted
C1_Witness == pc = "letters" /\ seeded /\ ~fallback /\ Len(path) = cols * rows

\* C3: no segment of a wall of a generated level, nor of a wall placed so
\* far, lies on an edge between two consecutive cells of the solution path.
C3_NoWallOnPath ==
  LET ws == IF pc = "done" THEN level.walls ELSE walls
  IN \A i \in 1..Len(ws) : \A j \in 1..Len(ws[i].segments) :
       \A k \in 1..(Len(path) - 1) :
         normalizeEdge(ws[i].segments[j].cell1, ws[i].segments[j].cell2)
           # normalizeEdge(path[k], path[k + 1])

\* a level is returned with two walls
C3_Witness == pc = "done" /\ Len(level.walls) >= 2

\* C4: calculateLetterPositions returns word.length strictly increasing
\* indices inside 0..path.length-1, and letterOrderByPosition of the level has
\* word.length entries, the values 1..word.length each once, keys on the
\* path, and the cell of order k earlier on the path than the cell of order
\* k+1.
C4_LetterOrder ==
  /\ LettersPlaced =>
       /\ Len(letterPositions) = Len(word)
       /\ \A i \in 1..Len(word) :
            letterPositions[i] >= 0 /\ letterPositions[i] <= Len(path) - 1
       /\ \A i \in 1..(Len(word) - 1) : letterPositions[i] < letterPositions[i + 1]
  /\ pc = "done" =>
       LET map == level.letterOrderByPosition
       IN /\ Cardinality(DOMAIN map) = Len(word)
          /\ {map[c] : c \in DOMAIN map} = 1..Len(word)
          /\ \A c \in DOMAIN map : \E i \in 1..Len(path) : path[i] = c
          /\ \A c1, c2 \in DOMAIN map :
               map[c2] = map[c1] + 1 => PathIndex(c1) < PathIndex(c2)

\* a level with a word of 10 letters is returned
C4_Witness == pc = "done" /\ Len(word) = 10 /\ Len(letterPositions) = 10

\* C5: in a generated level the last cell of the solution path is the cell
\* of letter order word.length.
C5_LastCellLastLetter ==
  /\ LettersPlaced => letterPositions[Len(word)] = cols * rows - 1
  /\ pc = "done" =>
       /\ path[cols * rows] \in DOMAIN level.letterOrderByPosition
       /\ level.letterOrderByPosition[path[cols * rows]] = Len(word)
       /\ level.grid[path[cols * rows]] = word[Len(word)]

\* the fallback level is returned
C5_Witness == pc = "done" /\ fallback /\ level.grid[path[cols * rows]] = word[Len(word)]

\* a step inside a call of tryGenerateLevel whose path is complete stays in
\* that call or returns its level, with no further attempt; and the fallback
\* starts only from the end of the loop
ReturnsFirstResult ==
  /\ pc \in {"letters", "walls", "scan"} =>
       pc' \in {"letters", "walls", "scan", "done"} /\ attempts' = attempts
  /\ (fallback' /\ ~fallback) => (pc = "loop" /\ attempts = maxAttempts)
  /\ (pc' = "done" /\ pc # "done") => level' # NoLevel

\* the steps one attempt has left, at most AttemptSteps: the cells still to
\* visit, then the letters, the shuffle and the scan of the edges
AttemptSteps == 4 * cols * rows + 8

StepsLeft ==
  CASE pc = "path" -> 3 * cols * rows + 4 - Len(path)
    [] pc = "letters" -> 2 * cols * rows + 2
    [] pc = "walls" -> 2 * cols * rows + 1
    [] pc = "scan" -> Len(shuffledEdges) + 2 - scanIdx
    [] OTHER -> 0

\* a measure of the work generateLevel has left; the second instance of a
\* seeded run counts as a run still to come
Variant ==
  (IF seeded /\ firstLevel = NoLevel THEN 100000 ELSE 0)
  + (IF pc = "idle" THEN 50000
     ELSE IF pc \in {"loop", "path"}
     THEN (maxAttempts + 1 - attempts) * AttemptSteps + StepsLeft
     ELSE StepsLeft)

\* the statement generateLevel is at has an outcome: each random choice it
\* makes has a value to take
CanStep ==
  CASE pc = "loop" ->
         LoopContinues(attempts) =>
           Draw(s, IndexValues(Len(StartPositions(cols, rows, difficulty)))) # {}
    [] pc = "path" ->
         LET k == Len(Neighbours(path[Len(path)], path, cols, rows))
         IN k > 0 => DrawSeq(s, k, NoiseValues(k)) # {}
    [] pc = "letters" -> calculateLetterPositions(path, word, s) # {}
    [] pc = "walls" ->
         difficulty >= 7 =>
           LET available == availableEdges(cols, rows, PathEdges(path))
           IN ShuffleFrom(available, Len(available) - 1, s) # {}
    [] pc = "scan" ->
         (scanIdx <= Len(shuffledEdges) /\ Len(walls) < numWalls(difficulty)
          /\ SegmentKey(shuffledEdges[scanIdx]) \notin usedEdges) =>
           buildMultiSegmentWall(shuffledEdges[scanIdx],
                                 availableEdges(cols, rows, PathEdges(path)),
                                 usedEdges, PathEdges(path), s) # {}
    [] OTHER -> TRUE

\* C6: generateLevel calls tryGenerateLevel at most 100 times, never throws,
\* returns the level of the first call that completes a path, reaches the
\* fallback only after 100 failed calls, and terminates: every statement it
\* reaches has an outcome, and every step lowers a measure that cannot fall
\* below 0.
C6_Terminates ==
  /\ [](/\ attempts <= maxAttempts
        /\ pc # "threw"
        /\ (fallback => attempts = maxAttempts)
        /\ Variant >= 0
        /\ CanStep)
  /\ [][ReturnsFirstResult /\ Variant' < Variant]_vars

\* the fallback level is returned after 100 failed attempts
C6_Witness == pc = "done" /\ fallback /\ attempts = maxAttempts /\ level # NoLevel

\* C7: a second LevelGenerator constructed with the same seed returns, for
\* the same difficulty, the LevelConfig the first one returned.
C7_SameSeedSameLevel ==
  (pc = "done" /\ firstLevel # NoLevel) => level = firstLevel

\* both instances have returned a level with walls
C7_Witness ==
  pc = "done" /\ firstLevel # NoLevel /\ level = firstLevel /\ Len(level.walls) >= 1

(***************************************************************************)
(* The play state machine.                                                 *)
(***************************************************************************)
\* the scene's path is the solution path up to its own length
OnSolutionPath ==
  /\ scene.created
  /\ Len(scene.path) <= Len(path)
  /\ \A i \in 1..Len(scene.path) : scene.path[i] = path[i]

\* C2: a generated level is playable.  startPosition is the first cell of
\* the solution path and the scene starts on it; and from any state whose
\* path is the solution path so far, a pointer move of the drag onto the next
\* cell of the solution path is accepted, and the move onto its last cell
\* wins the level.
C2_Playable ==
  /\ pc = "done" => level.startPosition = path[1]
  /\ scene.created => (scene.path # <<>> /\ scene.path[1] = path[1])
  /\ (OnSolutionPath /\ Len(scene.path) < Len(path)
      /\ scene.isDragging /\ ~scene.gamePaused /\ ~scene.gameWon) =>
       LET next == path[Len(scene.path) + 1]
           fed == onPointerMove(scene, next)
       IN /\ fed.path = Append(scene.path, next)
          /\ fed.isConnected = scene.isConnected \cup {next}
          /\ Len(fed.path) = Len(path) => fed.gameWon

\* the solution path of a level with a wall was fed from the start to the win
C2_Witness ==
  /\ scene.created /\ scene.variant = "part_002"
  /\ scene.path = path /\ scene.gameWon /\ ~scene.usedUndo
  /\ scene.wallBlockedEdges # {}

\* the three conditions of checkWinCondition
WinConditions(sc) ==
  /\ Len(sc.path) = sc.totalCells
  /\ level.grid[sc.path[Len(sc.path)]] = level.word[Len(level.word)]
  /\ sc.nextExpectedLetter = Len(level.word) + 1

\* a step that activates a cell
Activated == scene'.created /\ Len(scene'.path) = Len(scene.path) + 1

\* every cell is on the path and the last one does not hold the final letter
FullButNotFinal(sc) ==
  /\ sc.created
  /\ Len(sc.path) = sc.totalCells
  /\ level.grid[sc.path[Len(sc.path)]] # level.word[Len(level.word)]

\* C8: the level becomes won exactly in a step that activates a cell and
\* after which the path holds every cell of the grid, the letter of its last
\* cell is the last character of the word and nextExpectedLetter is
\* word.length + 1; a path over every cell that ends on a cell without the
\* final letter is never won.
C8_WonExactly ==
  [][/\ (scene'.gameWon /\ ~scene.gameWon) <=> (Activated /\ WinConditions(scene'))
     /\ FullButNotFinal(scene') => ~scene'.gameWon]_vars

\* a level has been won after an undo
C8_Witness == scene.created /\ scene.gameWon /\ WinConditions(scene) /\ scene.usedUndo

\* the move C9 speaks of: onto a cell that is not orthogonally adjacent to
\* the end of the path, or behind a wall, or with a letter out of order
RejectedMove(cell) ==
  \/ ~isOrthogonallyAdjacent(scene.currentCell, cell)
  \/ normalizeEdge(scene.currentCell, cell) \in scene.wallBlockedEdges
  \/ (HasLetterOrder(cell) /\ letterOrder(cell) # scene.nextExpectedLetter)

SameBoard(a, b) ==
  /\ a.path = b.path
  /\ a.isConnected = b.isConnected
  /\ a.nextExpectedLetter = b.nextExpectedLetter

C10_TerminalLetter ==
  (scene.created /\ scene.variant = "part_002") =>
    \A cell \in Cells :
      (HasLetterOrder(cell) /\ letterOrder(cell) = Len(level.word)) =>
        LET after == activateCell(scene, cell)
        IN /\ Len(scene.path) + 1 < scene.totalCells =>
                (after.path = scene.path
                 /\ after.nextExpectedLetter = scene.nextExpectedLetter)
           /\ after.path # scene.path =>
                /\ letterOrder(cell) = scene.nextExpectedLetter
                /\ Cells \ scene.isConnected = {cell}
                /\ after.path = Append(scene.path, cell)

\* a drag stands next to the final letter, which is the next expected
\* letter, while other cells are not connected
C10_Witness ==
  /\ scene.created /\ scene.variant = "part_002"
  /\ scene.isDragging /\ ~scene.gamePaused /\ ~scene.gameWon
  /\ Len(scene.path) + 1 < scene.totalCells
  /\ \E cell \in Cells \ scene.isConnected :
       /\ isAdjacent(scene, scene.currentCell, cell)
       /\ HasLetterOrder(cell) /\ letterOrder(cell) = Len(level.word)
       /\ scene.nextExpectedLetter = Len(level.word)

\* C11: in the scene of part_002, once the level is won no player input
\* changes the board: in every state reached after the win the path still
\* holds every cell of the grid, every cell is connected and
\* nextExpectedLetter is word.length + 1.
C11_FrozenOnceWon ==
  (scene.created /\ scene.variant = "part_002" /\ scene.gameWon) =>
    /\ Len(scene.path) = scene.totalCells
    /\ scene.isConnected = Cells
    /\ scene.nextExpectedLetter = Len(level.word) + 1

\* C12: a pointer down or a pointer move onto a cell that is connected and
\* is not the second-to-last cell of the path changes neither the path, nor
\* a connected flag, nor nextExpectedLetter, nor the current cell.
C12_ConnectedCellIgnored ==
  scene.created =>
    \A cell \in scene.isConnected :
      ~(Len(scene.path) >= 2 /\ cell = scene.path[Len(scene.path) - 1]) =>
        /\ SameBoard(onPointerMove(scene, cell), scene)
        /\ SameBoard(onPointerDown(scene, cell), scene)
        /\ onPointerMove(scene, cell).currentCell = scene.currentCell
        /\ onPointerDown(scene, cell).currentCell = scene.currentCell

\* a drag is under way on a path of four cells or more: the start cell, a
\* cell in the middle and the current cell are connected cells that are not
\* the second-to-last one
C12_Witness ==
  /\ scene.created /\ scene.variant = "part_002"
  /\ scene.isDragging /\ ~scene.gamePaused /\ ~scene.gameWon
  /\ Len(scene.path) >= 4
  /\ \E cell \in scene.isConnected :
       /\ cell # scene.path[Len(scene.path) - 1] /\ cell # scene.currentCell
       /\ isAdjacent(scene, scene.currentCell, cell)

\* after is sc with its last cell undone by a pointer on cell
UndoOf(sc, after, cell) ==
  /\ Len(sc.path) >= 2
  /\ cell = sc.path[Len(sc.path) - 1]
  /\ after.path = SubSeq(sc.path, 1, Len(sc.path) - 1)
  /\ after.isConnected = sc.isConnected \ {sc.path[Len(sc.path)]}
  /\ after.currentCell = cell

\* some cell connected in sc is not connected in after
Disconnects(sc, after) == sc.isConnected \ after.isConnected # {} \/ Len(after.path) < Len(sc.path)

\* C13: a pointer down or a pointer move disconnects a cell only when it is
\* on the second-to-last cell of the path, and then it removes exactly the
\* last cell of the path and the cell under the pointer becomes the current
\* cell; the start cell is never deactivated: the path is never empty, its
\* first cell is the start cell, also after the undo button, and
\* deactivateCell on the start cell changes nothing.
C13_UndoToPrevious ==
  scene.created =>
    /\ Len(scene.path) >= 1
    /\ scene.path[1] = level.startPosition
    /\ level.startPosition \in scene.isConnected
    /\ deactivateCell(scene, level.startPosition) = scene
    /\ resetBoard(scene).path[1] = level.startPosition
    /\ level.startPosition \in resetBoard(scene).isConnected
    /\ \A cell \in Cells :
         /\ Disconnects(scene, onPointerMove(scene, cell)) =>
              UndoOf(scene, onPointerMove(scene, cell), cell)
         /\ Disconnects(scene, onPointerDown(scene, cell)) =>
              UndoOf(scene, onPointerDown(scene, cell), cell)

\* a drag has undone a cell and stands on a path of three cells or more,
\* where a move onto the second-to-last cell undoes again
C13_Witness ==
  /\ scene.created /\ scene.variant = "part_002"
  /\ scene.isDragging /\ ~scene.gamePaused /\ ~scene.gameWon
  /\ scene.usedUndo
  /\ Len(scene.path) >= 3
  /\ Disconnects(scene, onPointerMove(scene, scene.path[Len(scene.path) - 1]))

\* what C14 compares: the path, the connected cells, nextExpectedLetter and
\* the wall-blocked edges
SameProgress(a, b) ==
  /\ a.path = b.path
  /\ a.isConnected = b.isConnected
  /\ Cardinality(a.isConnected) = Cardinality(b.isConnected)
  /\ a.nextExpectedLetter = b.nextExpectedLetter
  /\ a.wallBlockedEdges = b.wallBlockedEdges
  /\ a.currentCell = b.currentCell

\* activateCell accepts the cell and the level is not won by it
AcceptedWithoutWin(sc, cell) ==
  /\ activateCell(sc, cell).path = Append(sc.path, cell)
  /\ ~activateCell(sc, cell).gameWon

\* C14: in a level in progress, for every cell that activateCell accepts
\* without winning, letter or not, deactivateCell on that cell right after
\* gives back the path, the connected cells, nextExpectedLetter and the
\* wall-blocked edges of before; and so does the drag: a pointer move onto an
\* adjacent cell followed by the pointer move back.
C14_UndoSymmetry ==
  (scene.created /\ ~scene.gameWon) =>
    \A cell \in Cells :
      AcceptedWithoutWin(scene, cell) =>
        /\ SameProgress(deactivateCell(activateCell(scene, cell), cell), scene)
        /\ (scene.isDragging /\ ~scene.gamePaused /\ isAdjacent(scene, scene.currentCell, cell)) =>
             /\ onPointerMove(scene, cell) = activateCell(scene, cell)
             /\ SameProgress(onPointerMove(onPointerMove(scene, cell), scene.currentCell), scene)

\* after an undo a drag stands next to the letter expected next and next to
\* a cell without a letter, and both would be accepted without a win
C14_Witness ==
  /\ scene.created /\ scene.variant = "part_002"
  /\ scene.isDragging /\ ~scene.gamePaused /\ ~scene.gameWon /\ scene.usedUndo
  /\ \E cell \in Cells :
       /\ HasLetterOrder(cell) /\ isAdjacent(scene, scene.currentCell, cell)
       /\ AcceptedWithoutWin(scene, cell)
  /\ \E cell \in Cells :
       /\ ~IsLetter(cell) /\ isAdjacent(scene, scene.currentCell, cell)
       /\ AcceptedWithoutWin(scene, cell)

\* the pairs of cells, as sets, that a segment of a wall of the level lies
\* between
WalledPairs ==
  UNION {{{level.walls[i].segments[j].cell1, level.walls[i].segments[j].cell2} :
            j \in 1..Len(level.walls[i].segments)} : i \in 1..Len(level.walls)}

\* the two cells of a pair, the smaller one first: the one of the lower row
\* or, in one row, of the lower column
SmallerFirst(pair) ==
  LET lo == CHOOSE p \in pair : \A q \in pair :
              p = q \/ p.row < q.row \/ (p.row = q.row /\ p.col < q.col)
  IN <<lo, CHOOSE q \in pair : q # lo>>

\* C15: isAdjacent(a, b) is true exactly when a and b differ by 1 in row and
\* 0 in column or by 0 in row and 1 in column and no segment of a wall of the
\* level lies between them; isAdjacent(b, a) is the same; and the blocked
\* edges of the scene are the canonical edges of all segments of all walls,
\* the smaller cell first.
C15_Adjacency ==
  scene.created =>
    LET walled == WalledPairs
    IN /\ \A a, b \in Cells :
            /\ isAdjacent(scene, a, b) <=>
                 (/\ \/ (Abs(a.row - b.row) = 1 /\ a.col = b.col)
                     \/ (a.row = b.row /\ Abs(a.col - b.col) = 1)
                  /\ {a, b} \notin walled)
            /\ isAdjacent(scene, a, b) <=> isAdjacent(scene, b, a)
       /\ scene.wallBlockedEdges = {SmallerFirst(pair) : pair \in walled}

\* the scene of a level with a wall of three segments
C15_Witness ==
  /\ scene.created /\ scene.variant = "part_002"
  /\ \E i \in 1..Len(level.walls) : Len(level.walls[i].segments) = 3
  /\ Cardinality(scene.wallBlockedEdges) = 3

(***************************************************************************)
(* The walls and the first letter.                                         *)
(***************************************************************************)
\* the walls generateWalls holds: those of the level once it is returned
WallsSoFar == IF pc = "done" THEN level.walls ELSE walls

\* the two cells a segment lies between
SegmentCells(seg) == {seg.cell1, seg.cell2}

\* C16: every wall generateWalls has placed or returned has 2 or 3 segments,
\* and each segment after the first shares exactly one cell with the segment
\* added right before it.
C16_WallShape ==
  \A i \in 1..Len(WallsSoFar) :
    LET segments == WallsSoFar[i].segments
    IN /\ Len(segments) \in {2, 3}
       /\ \A j \in 2..Len(segments) :
            Cardinality(SegmentCells(segments[j]) \cap SegmentCells(segments[j - 1])) = 1

\* the scan has discarded its first start edge, which no wall holds, and has
\* placed a wall of three segments after it
C16_Witness ==
  /\ pc = "scan" /\ scanIdx > 2
  /\ Len(walls) = 1 /\ Len(walls[1].segments) = 3
  /\ SegmentKey(shuffledEdges[1]) \notin usedEdges

\* the segments of the walls, as pairs of the index of the wall and the index
\* of the segment in it
SegmentIndices ==
  {ij \in (1..Len(WallsSoFar)) \X (1..3) : ij[2] <= Len(WallsSoFar[ij[1]].segments)}

\* C17: no edge of the grid is used twice among the walls placed or returned:
\* any two segments, of two walls or of one, lie between different pairs of
\* cells.
C17_NoEdgeTwice ==
  \A a, b \in SegmentIndices :
    a # b => SegmentCells(WallsSoFar[a[1]].segments[a[2]])
               # SegmentCells(WallsSoFar[b[1]].segments[b[2]])

\* a level is returned with three walls or more, one of them of three
\* segments
C17_Witness ==
  /\ pc = "done" /\ Len(level.walls) >= 3
  /\ \E i \in 1..Len(level.walls) : Len(level.walls[i].segments) = 3

\* the number of walls C18 gives for a difficulty
WallTarget(d) ==
  IF d < 7 THEN 0
  ELSE IF d <= 8 THEN 1 ELSE IF d <= 10 THEN 2 ELSE IF d <= 13 THEN 3 ELSE 4

\* C18: generateWalls returns no wall for a difficulty below 7; from 7 on it
\* never holds nor returns more walls than the target of the tier, 1 for 7-8,
\* 2 for 9-10, 3 for 11-13 and 4 from 14 on, and the target does not
\* decrease with the difficulty.
C18_WallCount ==
  /\ Len(WallsSoFar) <= WallTarget(difficulty)
  /\ (pc = "done" /\ difficulty < 7) => level.walls = <<>>
  /\ \A d \in 7..(MaxDifficulty + 1) :
       /\ numWalls(d) = WallTarget(d)
       /\ numWalls(d) <= numWalls(d + 1)

\* a level of difficulty 14 or more is returned with its four walls
C18_Witness == pc = "done" /\ difficulty >= 14 /\ Len(level.walls) = 4

\* every grid of GRID_CONFIG_BY_DIFFICULTY is 5 by 6 or larger and generateLevel
\* only enlarges it: it has cells that are not on its border
HasInnerCell == cols >= 3 /\ rows >= 3

C20_FirstLetter ==
  /\ s < RngModulus
  /\ LettersPlaced => letterPositions[1] \in {1, 2}
  /\ pc = "done" =>
       /\ level.startPosition = path[1]
       /\ level.grid[level.startPosition] = "."
       /\ level.startPosition \notin DOMAIN level.letterOrderByPosition

\* the seeded generator has returned a level with its first letter at index 2
C20_Witness ==
  /\ pc = "done" /\ seeded /\ letterPositions[1] = 2
  /\ IsLetter(path[3]) /\ ~IsLetter(path[1])

(***************************************************************************)
(* The random stream.                                                      *)
(***************************************************************************)
\* the lists rng() indexes: start positions, candidate moves, edges
IndexSizes == 1..(2 * MaxCells)

\* C21: every value rng() returns, s / 0x7fffffff, is at least 0 and less
\* than 1, for every integer seed and every call, so Math.floor(rng() * n)
\* is one of 0..n-1.
C21_UnitInterval ==
  rngCalls > 0 =>
    /\ 0 <= s
    /\ s < RngModulus
    /\ \A n \in IndexSizes : FloorMul(s, n) \in 0..(n - 1)

\* the seed whose product, were it exact, would leave s = 0x7fffffff: the
\* rounded product leaves s = 0
C21_Witness == seed = 230538014 /\ rngCalls = 1 /\ s = 0

(***************************************************************************)
(* The start position.                                                     *)
(***************************************************************************)
Corners(nc, nr) == {Pos(0, 0), Pos(0, nc - 1), Pos(nr - 1, 0), Pos(nr - 1, nc - 1)}

OnBorder(p, nc, nr) == p.row \in {0, nr - 1} \/ p.col \in {0, nc - 1}

StartAllowed(p, nc, nr, d) ==
  /\ InGrid(p, nc, nr)
  /\ d <= 3 => p \in Corners(nc, nr)
  /\ d <= 7 => OnBorder(p, nc, nr)

\* C22: the start position is a corner up to difficulty 3 and a border cell
\* up to difficulty 7, so it is an inner cell only above difficulty 7; the
\* fallback level starts at corner (0,0).
C22_StartPosition ==
  /\ pc = "path" => StartAllowed(startPos, cols, rows, difficulty)
  /\ pc = "done" =>
       /\ StartAllowed(level.startPosition, level.gridCols, level.gridRows,
                       level.difficulty)
       /\ fallback => level.startPosition = Pos(0, 0)

\* a level above difficulty 7 that starts at an inner cell
C22_Witness ==
  /\ pc = "done" /\ ~fallback /\ level.difficulty > 7
  /\ ~OnBorder(level.startPosition, level.gridCols, level.gridRows)

(***************************************************************************)
(* The path search.                                                        *)
(***************************************************************************)
\* the cells next to p, up, down, left or right, that the path has not visited
OpenNeighbours(p, pth) ==
  {c \in GridCells(cols, rows) :
     /\ Abs(c.row - p.row) + Abs(c.col - p.col) = 1
     /\ \A i \in 1..Len(pth) : pth[i] # c}

\* c is first or second when the open neighbours of p are sorted by their
\* own number of open neighbours: at most one of them has fewer than c
FirstOrSecond(c, p, pth) ==
  LET fewer == {o \in OpenNeighbours(p, pth) :
                  Cardinality(OpenNeighbours(o, pth)) < Cardinality(OpenNeighbours(c, pth))}
  IN Cardinality(fewer) <= 1

\* C25: a step of generateHamiltonianPath returns null exactly when the
\* current cell has no unvisited orthogonal neighbour before the grid is
\* covered; otherwise it appends one such neighbour, the first or second of
\* the sorted candidates, removes nothing, and returns the path only when it
\* holds all cols * rows cells.
C25_PathSearch ==
  [][pc = "path" =>
       LET current == path[Len(path)]
           open == OpenNeighbours(current, path)
       IN /\ Len(path) < cols * rows
          /\ (pc' = "loop") = (open = {})
          /\ open = {} => path' = <<>>
          /\ open # {} =>
               /\ Len(path') = Len(path) + 1
               /\ SubSeq(path', 1, Len(path)) = path
               /\ path'[Len(path')] \in open
               /\ FirstOrSecond(path'[Len(path')], current, path)
               /\ pc' = (IF Len(path') = cols * rows THEN "letters" ELSE "path")]_vars

\* every attempt, the last one too, has run into a dead end
C25_Witness == pc = "loop" /\ attempts = maxAttempts /\ path = <<>>

(***************************************************************************)
(* The grid and the order map of a level.                                  *)
(***************************************************************************)
LetterCells == {c \in GridCells(level.gridCols, level.gridRows) : level.grid[c] # "."}

\* C29: in a level returned, a cell of the grid holds a letter exactly when
\* its position is a key of letterOrderByPosition, that letter is
\* word[order - 1], and word.length cells hold a letter, each order once,
\* whether or not the word repeats a letter; so every letter cell of the
\* scene has a letterOrder.
C29_GridAndOrders ==
  pc = "done" =>
    /\ LetterCells = DOMAIN level.letterOrderByPosition
    /\ \A c \in LetterCells :
         /\ level.letterOrderByPosition[c] \in 1..Len(level.word)
         /\ level.grid[c] = level.word[level.letterOrderByPosition[c]]
    /\ Cardinality(LetterCells) = Len(level.word)
    /\ {level.letterOrderByPosition[c] : c \in LetterCells} = 1..Len(level.word)
    /\ \A c \in GridCells(level.gridCols, level.gridRows) :
         IsLetter(c) => HasLetterOrder(c)

\* a level whose word has the same letter twice
C29_Witness ==
  /\ pc = "done"
  /\ \E i, j \in 1..Len(level.word) : i < j /\ level.word[i] = level.word[j]
  /\ \E c \in LetterCells : level.letterOrderByPosition[c] = Len(level.word)

(***************************************************************************)
(* The play state.                                                         *)
(***************************************************************************)
\* C26: in every play state the path starts at the start cell, holds no cell
\* twice, goes from each cell to one next to it (up, down, left or right)
\* with no wall segment between the two, and the connected cells are the
\* cells of the path.
C26_PathIsChain ==
  scene.created =>
    LET pth == scene.path
        walled == WalledPairs
    IN /\ Len(pth) >= 1
       /\ pth[1] = level.startPosition
       /\ \A i, j \in 1..Len(pth) : i < j => pth[i] # pth[j]
       /\ \A i \in 1..(Len(pth) - 1) :
            /\ Abs(pth[i].row - pth[i + 1].row) + Abs(pth[i].col - pth[i + 1].col) = 1
            /\ {pth[i], pth[i + 1]} \notin walled
       /\ scene.isConnected = {pth[i] : i \in 1..Len(pth)}

\* a path of three cells or more after an undo, on a level with a wall
C26_Witness ==
  /\ scene.created /\ scene.usedUndo /\ ~scene.gameWon
  /\ Len(scene.path) >= 3
  /\ level.walls # <<>>

\* C27: in every play state nextExpectedLetter is 1 plus the number of
\* letter cells in the path, those cells carry the orders 1, 2, ... in the
\* order of the path, and nextExpectedLetter is in 1..word.length + 1.
C27_NextExpectedLetter ==
  scene.created =>
    LET letters == SelectSeq(scene.path, IsLetter)
    IN /\ scene.nextExpectedLetter = 1 + Len(letters)
       /\ \A k \in 1..Len(letters) : letterOrder(letters[k]) = k
       /\ scene.nextExpectedLetter >= 1
       /\ scene.nextExpectedLetter <= Len(level.word) + 1

\* after an undo the path holds a letter cell and cells without a letter
\* behind it
C27_Witness ==
  /\ scene.created /\ scene.usedUndo /\ ~scene.gameWon
  /\ scene.nextExpectedLetter = 2
  /\ Len(scene.path) >= 4
  /\ ~IsLetter(scene.path[Len(scene.path)])

\* C28: resetBoard changes nothing when the level is won or the path holds
\* only the start cell; otherwise it leaves the path [start cell], the start
\* cell the only connected cell, nextExpectedLetter 1, the current cell the
\* start cell, and (in part_002, which has the flag) usedUndo set; it
\* touches nothing else.
C28_ResetBoard ==
  scene.created =>
    LET after == resetBoard(scene)
        start == level.startPosition
    IN IF scene.gameWon \/ Len(scene.path) = 1
       THEN after = scene
       ELSE /\ after.path = <<start>>
            /\ after.isConnected = {start}
            /\ after.nextExpectedLetter = 1
            /\ after.currentCell = start
            /\ scene.variant = "part_002" => after.usedUndo
            /\ after = [scene EXCEPT !.path = after.path,
                                     !.isConnected = after.isConnected,
                                     !.nextExpectedLetter = 1,
                                     !.currentCell = start,
                                     !.usedUndo = after.usedUndo]

\* a level in progress with a letter in its path and no undo so far, which
\* the reset takes back to the start cell and marks
C28_Witness ==
  /\ scene.created /\ scene.variant = "part_002"
  /\ ~scene.gameWon /\ ~scene.usedUndo
  /\ Len(scene.path) >= 3 /\ scene.nextExpectedLetter >= 2
  /\ resetBoard(scene).usedUndo
  /\ resetBoard(scene).path = <<level.startPosition>>

(***************************************************************************)
(* From level to level.                                                    *)
(***************************************************************************)
\* C23: a level ends either won or with its time expired, never both: after
\* the timer has reached 0 and game over was reported no input wins the
\* level, and after the win game over is not reported.
C23_WonOrExpired ==
  scene.created => ~(scene.gameWon /\ scene.gameOverReported)

\* C24: when create has run after init, whatever state the scene was in
\* before the restart, the path is the start cell alone, which is the only
\* connected cell, nextExpectedLetter is 1, gameWon is false and the
\* blocked edges are the edges of the walls of the new level.
C24_LevelStart ==
  [][(~scene.created /\ scene'.created) =>
       /\ scene'.path = <<level.startPosition>>
       /\ scene'.isConnected = {level.startPosition}
       /\ scene'.nextExpectedLetter = 1
       /\ ~scene'.gameWon
       /\ scene'.wallBlockedEdges = {SmallerFirst(pair) : pair \in WalledPairs}]_vars

\* the level after a win has started, and it has a wall
C24_Witness ==
  /\ scene.created /\ scene.restarts >= 1
  /\ scene.currentLevel = LifeStart.level + 1
  /\ scene.score > LifeStart.score
  /\ scene.path = <<level.startPosition>>
  /\ scene.wallBlockedEdges # {}

\* C30: a win is followed by one restart of the scene with level
\* currentLevel + 1 and the score: while the level is won, either the
\* transition is still to come (the timer of showVictory, or the camera
\* event and the fallback timer before either has run) or exactly that
\* restart is queued, once.
C30_OneTransition ==
  scene.created /\ scene.gameWon =>
    LET target == [level |-> scene.currentLevel + 1, score |-> scene.score]
    IN IF scene.restartQueue # <<>>
       THEN scene.restartQueue = <<target>>
       ELSE \/ "goToNextLevel" \in scene.pending
            \/ /\ scene.pending \cap {"camerafadeoutcomplete", "fallback"} # {}
               /\ ~scene.doRestart.transitioned
               /\ scene.doRestart.nextLevel = target.level
               /\ scene.doRestart.currentScore = target.score

====
